---- MODULE Spec2Model ----
(***************************************************************************)
(* Antfetch (src/src/main.rs): a system-fetch utility.  SystemInfo::new    *)
(* reads two environment variables and six files, turns each into a       *)
(* display string, and main prints a header and a 12-row logo with seven   *)
(* labelled rows.                                                          *)
(*                                                                         *)
(* Strings are TLA+ strings of characters.  A Rust String is UTF-8: its    *)
(* len() and its [..n] slices count bytes, its {:>width$} padding counts   *)
(* characters.  Utf8Len gives the byte width of a character.               *)
(*                                                                         *)
(* u32 and u64 values are canonical decimal digit strings ("0", "17",      *)
(* "4294967295"), because the values that matter (2^32, 2^64) lie outside  *)
(* the model checker's integers.  f64 values that come from decimal text   *)
(* are carried as exact decimals; the binary rounding of f64 is modelled   *)
(* where an integer is converted (as f64) and not for decimal fractions.   *)
(***************************************************************************)
EXTENDS Integers, Sequences, FiniteSets, TLC

----------------------------------------------------------------------------
(* Option and Result values                                                *)

Some(x) == [some |-> TRUE, v |-> x]
None == [some |-> FALSE, v |-> ""]
Ok(x) == [ok |-> TRUE, v |-> x]
Err == [ok |-> FALSE, v |-> ""]

----------------------------------------------------------------------------
(* str primitives of the Rust standard library used by main.rs             *)

Char(s, i) == SubSeq(s, i, i)

DropFirst(s, n) == SubSeq(s, n + 1, Len(s))

\* char::is_whitespace, restricted to the ASCII white space
is_whitespace(c) == c \in {" ", "\t", "\n", "\r"}

\* bytes a character takes in UTF-8 (U+00E9 is the two-byte character used)
Utf8Len(c) == IF c = "é" THEN 2 ELSE 1

RECURSIVE len(_)
\* str::len: the length in bytes
len(s) == IF s = "" THEN 0 ELSE Utf8Len(Head(s)) + len(Tail(s))

RECURSIVE trim_start(_)
trim_start(s) ==
    IF s # "" /\ is_whitespace(Head(s)) THEN trim_start(Tail(s)) ELSE s

RECURSIVE trim_end(_)
trim_end(s) ==
    IF s # "" /\ is_whitespace(Char(s, Len(s)))
    THEN trim_end(SubSeq(s, 1, Len(s) - 1))
    ELSE s

trim(s) == trim_end(trim_start(s))

starts_with(s, p) == Len(s) >= Len(p) /\ SubSeq(s, 1, Len(p)) = p

RECURSIVE FindFrom(_, _, _)
\* index of the first character at or after i that is in set cs, 0 if none
FindFrom(s, cs, i) ==
    IF i > Len(s) THEN 0
    ELSE IF Char(s, i) \in cs THEN i
    ELSE FindFrom(s, cs, i + 1)

find(s, c) == FindFrom(s, {c}, 1)

RECURSIVE lines(_)
\* str::lines: split at "\n" or "\r\n"; a final empty piece is not a line
lines(s) ==
    IF s = "" THEN <<>>
    ELSE LET k == find(s, "\n")
             StripCr(l) == IF l # "" /\ Char(l, Len(l)) = "\r"
                           THEN SubSeq(l, 1, Len(l) - 1) ELSE l
         IN  IF k = 0 THEN <<s>>
             ELSE <<StripCr(SubSeq(s, 1, k - 1))>> \o lines(DropFirst(s, k))

\* s.split_whitespace().next()
split_whitespace_next(s) ==
    LET t == trim_start(s)
        k == FindFrom(t, {" ", "\t", "\n", "\r"}, 1)
    IN  IF t = "" THEN None
        ELSE IF k = 0 THEN Some(t)
        ELSE Some(SubSeq(t, 1, k - 1))

\* s.split(':').nth(1): the piece between the first and the second colon
split_colon_nth1(s) ==
    LET k == find(s, ":")
        rest == DropFirst(s, k)
        k2 == find(rest, ":")
    IN  IF k = 0 THEN None
        ELSE IF k2 = 0 THEN Some(rest)
        ELSE Some(SubSeq(rest, 1, k2 - 1))

\* s.split_once(':')
split_once(s) ==
    LET k == find(s, ":")
    IN  IF k = 0 THEN None
        ELSE Some(<<SubSeq(s, 1, k - 1), DropFirst(s, k)>>)

RECURSIVE trim_start_matches(_, _)
\* removes every repetition of prefix p
trim_start_matches(s, p) ==
    IF p # "" /\ starts_with(s, p)
    THEN trim_start_matches(DropFirst(s, Len(p)), p)
    ELSE s

RECURSIVE trim_matches(_, _)
\* removes every leading and trailing occurrence of character c
trim_matches(s, c) ==
    IF s # "" /\ Head(s) = c THEN trim_matches(Tail(s), c)
    ELSE IF s # "" /\ Char(s, Len(s)) = c
         THEN trim_matches(SubSeq(s, 1, Len(s) - 1), c)
    ELSE s

\* &s[..n]: the first n bytes; panics when byte n is inside a character
RECURSIVE SliceTo(_, _)
SliceTo(s, n) ==
    IF n = 0 THEN Ok("")
    ELSE IF s = "" \/ Utf8Len(Head(s)) > n THEN Err
    ELSE LET r == SliceTo(Tail(s), n - Utf8Len(Head(s)))
         IN  IF r.ok THEN Ok(Head(s) \o r.v) ELSE Err

RECURSIVE Spaces(_)
Spaces(n) == IF n <= 0 THEN "" ELSE " " \o Spaces(n - 1)

----------------------------------------------------------------------------
(* Decimal digit strings: unsigned integers of any size                    *)

Digits == "0123456789"

IsDigit(c) == c \in {Char(Digits, i) : i \in 1..10}

DigitVal(c) == CHOOSE d \in 0..9 : Char(Digits, d + 1) = c

DigitChar(d) == Char(Digits, d + 1)

RECURSIVE AllDigits(_)
AllDigits(s) == s = "" \/ (IsDigit(Head(s)) /\ AllDigits(Tail(s)))

RECURSIVE Canon(_)
\* the digit string without leading zeros; zero is "0"
Canon(s) ==
    IF s = "" THEN "0"
    ELSE IF Head(s) = "0" /\ Len(s) > 1 THEN Canon(Tail(s))
    ELSE s

RECURSIVE LexLe(_, _)
LexLe(a, b) ==
    IF a = "" THEN TRUE
    ELSE IF DigitVal(Head(a)) # DigitVal(Head(b))
         THEN DigitVal(Head(a)) < DigitVal(Head(b))
    ELSE LexLe(Tail(a), Tail(b))

\* a <= b for canonical digit strings
BigLe(a, b) == Len(a) < Len(b) \/ (Len(a) = Len(b) /\ LexLe(a, b))

RECURSIVE DivModStep(_, _, _, _)
\* long division of digit string s by the small divisor d:
\* <<quotient digits, remainder>>
DivModStep(s, d, q, r) ==
    IF s = "" THEN <<Canon(q), r>>
    ELSE LET cur == r * 10 + DigitVal(Head(s))
         IN  DivModStep(Tail(s), d, q \o DigitChar(cur \div d), cur % d)

BigDiv(s, d) == DivModStep(s, d, "", 0)[1]

BigMod(s, d) == DivModStep(s, d, "", 0)[2]

RECURSIVE AddStep(_, _, _, _)
\* a + b, from the last digit, with carry c and the digits so far in acc
AddStep(a, b, c, acc) ==
    IF a = "" /\ b = "" THEN Canon((IF c = 0 THEN "" ELSE DigitChar(c)) \o acc)
    ELSE LET da == IF a = "" THEN 0 ELSE DigitVal(Char(a, Len(a)))
             db == IF b = "" THEN 0 ELSE DigitVal(Char(b, Len(b)))
             t == da + db + c
         IN  AddStep(SubSeq(a, 1, Len(a) - 1), SubSeq(b, 1, Len(b) - 1),
                     t \div 10, DigitChar(t % 10) \o acc)

BigAdd(a, b) == AddStep(a, b, 0, "")

RECURSIVE SubStep(_, _, _, _)
\* a - b for a >= b, from the last digit, with borrow c
SubStep(a, b, c, acc) ==
    IF a = "" THEN Canon(acc)
    ELSE LET da == DigitVal(Char(a, Len(a)))
             db == IF b = "" THEN 0 ELSE DigitVal(Char(b, Len(b)))
             t == da - db - c
         IN  SubStep(SubSeq(a, 1, Len(a) - 1), SubSeq(b, 1, Len(b) - 1),
                     IF t < 0 THEN 1 ELSE 0,
                     DigitChar(IF t < 0 THEN t + 10 ELSE t) \o acc)

BigSub(a, b) == SubStep(a, b, 0, "")

RECURSIVE Pow2(_)
\* 2^k as a small integer, k <= 20
Pow2(k) == IF k = 0 THEN 1 ELSE 2 * Pow2(k - 1)

RECURSIVE FmtNat(_)
\* format!("{}", n) of an unsigned integer: its decimal digits
FmtNat(n) == IF n < 10 THEN DigitChar(n) ELSE FmtNat(n \div 10) \o DigitChar(n % 10)

U32_MAX == "4294967295"

U64_MAX == "18446744073709551615"


\* 2^53 .. 2^64: the binades in which a u64 is no longer exact as an f64
BINADES ==
    <<"9007199254740992",
      "18014398509481984",
      "36028797018963968",
      "72057594037927936",
      "144115188075855872",
      "288230376151711744",
      "576460752303423488",
      "1152921504606846976",
      "2305843009213693952",
      "4611686018427387904",
      "9223372036854775808",
      "18446744073709551616">>

----------------------------------------------------------------------------
(* f64: parsing, arithmetic casts and formatting                           *)

to_ascii_lowercase_char(c) ==
    LET upper == "ABCDEFGHIJKLMNOPQRSTUVWXYZ"
        lower == "abcdefghijklmnopqrstuvwxyz"
    IN  IF \E k \in 1..26 : Char(upper, k) = c
        THEN Char(lower, CHOOSE k \in 1..26 : Char(upper, k) = c)
        ELSE c

RECURSIVE to_ascii_lowercase(_)
to_ascii_lowercase(s) ==
    IF s = "" THEN ""
    ELSE to_ascii_lowercase_char(Head(s)) \o to_ascii_lowercase(Tail(s))

RECURSIVE DigitPrefixLen(_)
DigitPrefixLen(s) ==
    IF s # "" /\ IsDigit(Head(s)) THEN 1 + DigitPrefixLen(Tail(s)) ELSE 0

RECURSIVE Zeros(_)
Zeros(n) == IF n <= 0 THEN "" ELSE "0" \o Zeros(n - 1)

RECURSIVE AllZero(_)
AllZero(s) == s = "" \/ (Head(s) = "0" /\ AllZero(Tail(s)))

\* an f64: kind "nan", "inf" or "fin"; a finite one has the digits of its
\* integer part (int, canonical) and of its fraction (frac)
F64(kind, neg, int, frac) == [kind |-> kind, neg |-> neg, int |-> int, frac |-> frac]

\* largest number of integer digits of a finite f64 (f64::MAX is 1.8e308)
F64_MAX_DIGITS == 309

\* the decimal number with digit string ds and its point after position p
Decimal(neg, ds, p) ==
    IF AllZero(ds) THEN F64("fin", neg, "0", "")
    ELSE IF p > F64_MAX_DIGITS THEN F64("inf", neg, "0", "")
    ELSE IF p <= 0 THEN F64("fin", neg, "0", Zeros(IF -p > 400 THEN 400 ELSE -p) \o ds)
    ELSE IF p >= Len(ds) THEN F64("fin", neg, Canon(ds \o Zeros(p - Len(ds))), "")
    ELSE F64("fin", neg, Canon(SubSeq(ds, 1, p)), DropFirst(ds, p))

\* the value of the canonical exponent digits expC, capped at 1000
ExpVal(expC) ==
    LET d3 == Zeros(3 - Len(expC)) \o expC
    IN  IF Len(expC) > 3 THEN 1000
        ELSE 100 * DigitVal(Char(d3, 1)) + 10 * DigitVal(Char(d3, 2))
             + DigitVal(Char(d3, 3))

\* core::num::dec2flt parses [digits][.digits][(e|E)[+|-]digits] with at
\* least one mantissa digit and the whole string consumed, in these steps:
\* the digits of the exponent
ParseExpDigits(neg, ni, ds, expNeg, expD) ==
    IF expD = "" \/ ~AllDigits(expD) THEN Err
    ELSE Ok(Decimal(neg, ds, IF expNeg THEN ni - ExpVal(Canon(expD))
                                       ELSE ni + ExpVal(Canon(expD))))

\* the sign of the exponent
ParseExpSign(neg, ni, ds, r) ==
    IF r # "" /\ Head(r) \in {"+", "-"}
    THEN ParseExpDigits(neg, ni, ds, Head(r) = "-", Tail(r))
    ELSE ParseExpDigits(neg, ni, ds, FALSE, r)

\* the end of the mantissa: ni + nf digits ds, r left to read
ParseExp(neg, ni, nf, ds, r) ==
    IF ni + nf = 0 THEN Err
    ELSE IF r = "" THEN Ok(Decimal(neg, ds, ni))
    ELSE IF Head(r) \in {"e", "E"} THEN ParseExpSign(neg, ni, ds, Tail(r))
    ELSE Err

\* the fraction digits: nf of them at the head of r
ParseFrac(neg, ni, intD, r, nf) ==
    ParseExp(neg, ni, nf, intD \o SubSeq(r, 1, nf), DropFirst(r, nf))

\* the point after the integer digits intD
ParseDot(neg, ni, intD, r) ==
    IF r # "" /\ Head(r) = "."
    THEN ParseFrac(neg, ni, intD, Tail(r), DigitPrefixLen(Tail(r)))
    ELSE ParseExp(neg, ni, 0, intD, r)

\* the integer digits: ni of them at the head of s
ParseInt(s, neg, ni) == ParseDot(neg, ni, SubSeq(s, 1, ni), DropFirst(s, ni))

parse_number(s, neg) == ParseInt(s, neg, DigitPrefixLen(s))

\* parse_inf_nan, tried when s is not a number
OrInfNan(num, neg, low) ==
    IF num.ok THEN num
    ELSE IF low = "nan" THEN Ok(F64("nan", neg, "0", ""))
    ELSE IF low \in {"inf", "infinity"} THEN Ok(F64("inf", neg, "0", ""))
    ELSE Err

ParseSigned(neg, s) ==
    IF s = "" THEN Err
    ELSE OrInfNan(parse_number(s, neg), neg, to_ascii_lowercase(s))

\* <f64 as FromStr>::from_str
parse_f64(t) ==
    IF t # "" /\ Head(t) \in {"+", "-"}
    THEN ParseSigned(Head(t) = "-", Tail(t))
    ELSE ParseSigned(FALSE, t)

\* (f / d) as u32 for a positive integer d: the cast truncates toward zero,
\* saturates at the bounds of u32 and sends NaN to 0
DivAsU32(f, d) ==
    IF f.kind = "nan" \/ f.neg THEN "0"
    ELSE IF f.kind = "inf" THEN U32_MAX
    ELSE IF BigLe(BigDiv(f.int, d), U32_MAX) THEN BigDiv(f.int, d)
    ELSE U32_MAX

\* ((f % m) / d) as u32: the remainder keeps the sign of f and is NaN for
\* an infinite f
RemDivAsU32(f, m, d) ==
    IF f.kind # "fin" \/ f.neg THEN "0"
    ELSE FmtNat(BigMod(f.int, m) \div d)

\* the digits p with a point before the last prec of them
WithPoint(p, prec) ==
    SubSeq(p, 1, Len(p) - prec) \o "." \o DropFirst(p, Len(p) - prec)

\* the integer t of 10^-prec units written as a decimal with prec places
PointBefore(t, prec) == WithPoint(Zeros(prec + 1 - Len(t)) \o t, prec)

\* half to even: kept is followed by the digit next and the digits rest
RoundKept(kept, next, rest) ==
    IF next > 5 \/ (next = 5 /\ (~AllZero(rest) \/ BigMod(kept, 2) = 1))
    THEN BigAdd(kept, "1")
    ELSE kept

\* the decimal with integer digits int and at least prec + 1 fraction
\* digits fr, rounded to prec places
RoundFixed(int, fr, prec) ==
    PointBefore(RoundKept(Canon(int \o SubSeq(fr, 1, prec)),
                          DigitVal(Char(fr, prec + 1)), DropFirst(fr, prec + 1)),
                prec)

FmtFixed(int, frac, prec) ==
    RoundFixed(int, frac \o Zeros(prec + 1 - Len(frac)), prec)

\* format!("{:.prec$}", f)
fmt_f64(f, prec) ==
    IF f.kind = "nan" THEN "NaN"
    ELSE IF f.kind = "inf" THEN (IF f.neg THEN "-inf" ELSE "inf")
    ELSE (IF f.neg THEN "-" ELSE "") \o FmtFixed(f.int, f.frac, prec)

\* the decimal with at least four integer digits p, divided by 1000
ShiftThree(neg, p, frac) ==
    F64("fin", neg, Canon(SubSeq(p, 1, Len(p) - 3)), DropFirst(p, Len(p) - 3) \o frac)

\* f / 1000.0: the decimal point moves three places to the left
div_1000(f) ==
    IF f.kind # "fin" THEN f
    ELSE ShiftThree(f.neg, Zeros(4 - Len(f.int)) \o f.int, f.frac)

\* n rounded to a multiple of sp, ties to even: r is n mod sp, odd tells
\* whether the multiple below n is an odd one
RoundBy(n, sp, r, odd) ==
    IF 2 * r > sp \/ (2 * r = sp /\ odd)
    THEN BigAdd(BigSub(n, FmtNat(r)), FmtNat(sp))
    ELSE BigSub(n, FmtNat(r))

RoundToSpacing(n, sp) ==
    IF sp = 1 THEN n ELSE RoundBy(n, sp, BigMod(n, sp), BigMod(n, 2 * sp) >= sp)

\* n as f64 for a u64 n: exact below 2^53, otherwise the nearest multiple
\* of the binade's spacing, ties to even
u64_as_f64(n) ==
    RoundToSpacing(n, Pow2(Cardinality({k \in 1..11 : BigLe(BINADES[k], n)})))

\* the quotient and remainder dm of a division by 2^20, rounded half to even
RoundGb(dm) ==
    IF dm[2] > 524288 \/ (dm[2] = 524288 /\ BigMod(dm[1], 2) = 1)
    THEN BigAdd(dm[1], "1")
    ELSE dm[1]

\* format!("{:.1}", n as f64 / 1024.0 / 1024.0): both divisions are exact,
\* the result is rounded to tenths, half to even
fmt_gb(n) ==
    PointBefore(RoundGb(DivModStep(u64_as_f64(n) \o "0", 1048576, "", 0)), 1)

\* the digits s as a u64: Err above u64::MAX
CheckedU64(s) ==
    IF s = "" \/ ~AllDigits(s) THEN Err
    ELSE IF ~BigLe(Canon(s), U64_MAX) THEN Err
    ELSE Ok(Canon(s))

\* <u64 as FromStr>::from_str: an optional "+", then digits; Err when empty,
\* when a character is not a digit, or when the value exceeds u64::MAX
parse_u64(t) ==
    IF t # "" /\ Head(t) = "+" THEN CheckedU64(Tail(t)) ELSE CheckedU64(t)

----------------------------------------------------------------------------
(* The collectors of SystemInfo.  A collector takes the result of reading  *)
(* its source: Ok(text) or Err.                                            *)

UNKNOWN == "unknown"

\* std::env::consts::OS and ARCH of the build target
TARGET_OS == "linux"

TARGET_ARCH == "x86_64"

\* what a function call ends in: a returned String or a panic
Returned(s) == [panic |-> FALSE, v |-> s, msg |-> ""]
Panicked(m) == [panic |-> TRUE, v |-> "", msg |-> m]

\* index of the first line of ls that satisfies P, 0 if there is none
FirstLine(ls, P(_)) ==
    LET hits == {k \in 1..Len(ls) : P(ls[k])}
    IN  IF hits = {} THEN 0 ELSE CHOOSE k \in hits : \A j \in hits : k <= j

get_user(var) == IF var.ok THEN var.v ELSE UNKNOWN

get_hostname(file) == trim(IF file.ok THEN file.v ELSE UNKNOWN)

IsPrettyName(line) == starts_with(line, "PRETTY_NAME=")

\* the body of the loop of get_os_info at line k of ls, after the loop for k = 0
OsOfLine(ls, k) ==
    IF k # 0
    THEN trim_matches(trim_start_matches(ls[k], "PRETTY_NAME="), "\"")
    ELSE TARGET_OS \o " " \o TARGET_ARCH

OsOfLines(ls) == OsOfLine(ls, FirstLine(ls, IsPrettyName))

get_os_info(file) ==
    IF file.ok THEN OsOfLines(lines(file.v)) ELSE TARGET_OS \o " " \o TARGET_ARCH

get_kernel(file) == trim(IF file.ok THEN file.v ELSE UNKNOWN)

\* if let Ok(seconds) = uptime_seconds.parse::<f64>()
UptimeOfSeconds(seconds) ==
    IF seconds.ok
    THEN DivAsU32(seconds.v, 3600) \o "h " \o RemDivAsU32(seconds.v, 3600, 60) \o "m"
    ELSE UNKNOWN

\* if let Some(uptime_seconds) = content.split_whitespace().next()
UptimeOfToken(uptime_seconds) ==
    IF uptime_seconds.some THEN UptimeOfSeconds(parse_f64(uptime_seconds.v)) ELSE UNKNOWN

get_uptime(file) ==
    IF file.ok THEN UptimeOfToken(split_whitespace_next(file.v)) ELSE UNKNOWN

get_shell(var) == IF var.ok THEN var.v ELSE UNKNOWN

IsModelName(line) == starts_with(line, "model name") /\ split_colon_nth1(line).some

\* format!("{}...", &full_name[..27])
Truncated(head) ==
    IF head.ok THEN Returned(head.v \o "...")
    ELSE Panicked("byte index 27 is not a char boundary")

CpuOfName(full_name) ==
    IF len(full_name) > 30 THEN Truncated(SliceTo(full_name, 27))
    ELSE Returned(full_name)

CpuOfLine(ls, k) ==
    IF k = 0 THEN Returned(UNKNOWN)
    ELSE CpuOfName(trim(split_colon_nth1(ls[k]).v))

CpuOfLines(ls) == CpuOfLine(ls, FirstLine(ls, IsModelName))

get_cpu(file) ==
    IF file.ok THEN CpuOfLines(lines(file.v)) ELSE Returned(UNKNOWN)

IsProcessor(line) == starts_with(line, "processor")

CoresOfLines(ls) == FmtNat(Cardinality({k \in 1..Len(ls) : IsProcessor(ls[k])}))

\* a count of zero reported as a failure
get_cpu_cores_zero_unknown(file) ==
    IF file.ok /\ CoresOfLines(lines(file.v)) # "0"
    THEN CoresOfLines(lines(file.v))
    ELSE UNKNOWN

get_cpu_cores(file) ==
    IF file.ok THEN CoresOfLines(lines(file.v)) ELSE UNKNOWN

IsCpuMhz(line) == starts_with(line, "cpu MHz") /\ split_colon_nth1(line).some

\* speed.trim().parse::<f64>().unwrap_or(0.0), then the division and the format
SpeedOf(parsed) ==
    fmt_f64(div_1000(IF parsed.ok THEN parsed.v ELSE F64("fin", FALSE, "0", "")), 2)
        \o "GHz"

SpeedOfLine(ls, k) ==
    IF k = 0 THEN UNKNOWN
    ELSE SpeedOf(parse_f64(trim(split_colon_nth1(ls[k]).v)))

SpeedOfLines(ls) == SpeedOfLine(ls, FirstLine(ls, IsCpuMhz))

get_cpu_speed(file) ==
    IF file.ok THEN SpeedOfLines(lines(file.v)) ELSE UNKNOWN

\* HashMap::insert
insert(m, key, val) ==
    [k \in DOMAIN m \cup {key} |-> IF k = key THEN val ELSE m[k]]

\* value.trim().split_whitespace().next().unwrap_or("0").parse().unwrap_or(0)
NumOfToken(tok) ==
    LET parsed == parse_u64(IF tok.some THEN tok.v ELSE "0")
    IN  IF parsed.ok THEN parsed.v ELSE "0"

\* the body of the loop of get_memory for one line, kv its split_once
InsertLine(m, kv) ==
    IF kv.some
    THEN insert(m, trim(kv.v[1]), NumOfToken(split_whitespace_next(trim(kv.v[2]))))
    ELSE m

RECURSIVE mem_info_of(_, _)
\* the loop of get_memory over the lines, from the map m so far
mem_info_of(ls, m) ==
    IF ls = <<>> THEN m
    ELSE mem_info_of(Tail(ls), InsertLine(m, split_once(Head(ls))))

\* total - available on u64: a panic when the build checks overflow,
\* otherwise the difference modulo 2^64
sub_u64(a, b, checks) ==
    IF BigLe(b, a) THEN Returned(BigSub(a, b))
    ELSE IF checks THEN Panicked("attempt to subtract with overflow")
    ELSE Returned(BigSub(BINADES[12], BigSub(b, a)))

MemoryOfUsed(total, used) ==
    IF used.panic THEN used
    ELSE Returned(fmt_gb(used.v) \o "GB / " \o fmt_gb(total) \o "GB")

MemoryOfMap(mem_info, checks) ==
    IF {"MemTotal", "MemAvailable"} \subseteq DOMAIN mem_info
    THEN MemoryOfUsed(mem_info["MemTotal"],
                      sub_u64(mem_info["MemTotal"], mem_info["MemAvailable"], checks))
    ELSE Returned(UNKNOWN)

get_memory(file, checks) ==
    IF file.ok THEN MemoryOfMap(mem_info_of(lines(file.v), [k \in {} |-> "0"]), checks)
    ELSE Returned(UNKNOWN)

----------------------------------------------------------------------------
(* Rendering constants of main                                             *)

\* the grave accent U+0060, which a TLA+ string cannot hold: one character
\* of one byte that occurs nowhere else in the logo
GRAVE == "~"

get_logo ==
    << "           |     |",
       "            \\   /",
       "             \\_/",
       "        __   /^\\   __",
       "       '  " \o GRAVE \o ". \\_/ ,'  " \o GRAVE,
       "            \\/ \\/",
       "       _,--./| |\\.--._",
       "    _,'   _.-\\_/-._  " \o GRAVE \o "._",
       "         |   / \\   |",
       "         |  /   \\  |",
       "        /   |   |   \\",
       "      -'    \\___/    " \o GRAVE \o "-" >>

\* the escape character 0x1b
ESC == ""

get_color_code == ESC \o "[36m"

reset == ESC \o "[0m"

text_start_position == 30

total_width == text_start_position + 30

\* format!("{:<width$}", s): the padding on the wrong side
pad_left_as_pad_right(s, width) == s \o Spaces(width - Len(s))

\* format!("{:>width$}", s): right-aligned, spaces on the left up to width
\* characters, nothing cut
pad_left(s, width) == Spaces(width - Len(s)) \o s

user_host(info) == get_color_code \o info.user \o "@" \o info.hostname \o reset

labels(info) ==
    << <<"OS", info.os>>,
       <<"Host", info.hostname>>,
       <<"Kernel", info.kernel>>,
       <<"Uptime", info.uptime>>,
       <<"Shell", info.shell>>,
       <<"CPU", info.cpu \o " (" \o info.cpu_cores \o ") @ " \o info.cpu_speed>>,
       <<"Memory", info.memory>> >>

\* the reset code after the value, so that the value is colored too
info_text_all_colored(label, value) ==
    get_color_code \o label \o ": " \o value \o reset

info_text(label, value) == get_color_code \o label \o ":" \o reset \o " " \o value

\* the gap one space too wide
padding_needed_off_by_one(current_logo_length) ==
    IF text_start_position > current_logo_length
    THEN text_start_position - current_logo_length + 1
    ELSE 1

padding_needed(current_logo_length) ==
    IF text_start_position > current_logo_length
    THEN text_start_position - current_logo_length
    ELSE 1

\* print! and println! of a labelled row: one line of output
labelled_row(logo_line, label, value) ==
    get_color_code \o logo_line \o reset
        \o Spaces(padding_needed(len(logo_line))) \o info_text(label, value)

logo_row(logo_line) == get_color_code \o logo_line \o reset

----------------------------------------------------------------------------
(* The program state                                                       *)

VARIABLES
    env,              \* the environment: USER and SHELL, each Ok(value) or Err
    fs,               \* what read_to_string gives for each path: Ok(text) or Err
    overflow_checks,  \* whether the build panics on integer overflow
    pc,               \* the step main is about to take
    info,             \* the fields of SystemInfo evaluated so far
    i,                \* the loop index of main
    stdout,           \* the lines printed so far
    stderr,           \* the panic message, if any
    exit_code         \* the exit status, RUNNING until the process ends

vars == <<env, fs, overflow_checks, pc, info, i, stdout, stderr, exit_code>>

HOSTNAME_PATH == "/proc/sys/kernel/hostname"
OS_RELEASE_PATH == "/etc/os-release"
OSRELEASE_PATH == "/proc/sys/kernel/osrelease"
UPTIME_PATH == "/proc/uptime"
CPUINFO_PATH == "/proc/cpuinfo"
MEMINFO_PATH == "/proc/meminfo"

RUNNING == -1

\* the exit status of a process whose main thread panicked
PANIC_EXIT == 101

\* the struct literal of SystemInfo::new assigns one more field
Field(name, value, next) ==
    /\ info' = insert(info, name, value)
    /\ pc' = next
    /\ UNCHANGED <<env, fs, overflow_checks, i, stdout, stderr, exit_code>>

\* a collector panicked: the message goes to stderr and the process ends
Abort(msg) ==
    /\ pc' = "panicked"
    /\ stderr' = Append(stderr, msg)
    /\ exit_code' = PANIC_EXIT
    /\ UNCHANGED <<env, fs, overflow_checks, info, i, stdout>>

FieldOrAbort(name, r, next) ==
    IF r.panic THEN Abort(r.msg) ELSE Field(name, r.v, next)

GetUser ==
    /\ pc = "get_user"
    /\ Field("user", get_user(env.USER), "get_hostname")

GetHostname ==
    /\ pc = "get_hostname"
    /\ Field("hostname", get_hostname(fs[HOSTNAME_PATH]), "get_os_info")

GetOsInfo ==
    /\ pc = "get_os_info"
    /\ Field("os", get_os_info(fs[OS_RELEASE_PATH]), "get_kernel")

GetKernel ==
    /\ pc = "get_kernel"
    /\ Field("kernel", get_kernel(fs[OSRELEASE_PATH]), "get_uptime")

GetUptime ==
    /\ pc = "get_uptime"
    /\ Field("uptime", get_uptime(fs[UPTIME_PATH]), "get_shell")

GetShell ==
    /\ pc = "get_shell"
    /\ Field("shell", get_shell(env.SHELL), "get_cpu")

GetCpu ==
    /\ pc = "get_cpu"
    /\ FieldOrAbort("cpu", get_cpu(fs[CPUINFO_PATH]), "get_cpu_cores")

GetCpuCores ==
    /\ pc = "get_cpu_cores"
    /\ Field("cpu_cores", get_cpu_cores(fs[CPUINFO_PATH]), "get_cpu_speed")

GetCpuSpeed ==
    /\ pc = "get_cpu_speed"
    /\ Field("cpu_speed", get_cpu_speed(fs[CPUINFO_PATH]), "get_memory")

GetMemory ==
    /\ pc = "get_memory"
    /\ FieldOrAbort("memory", get_memory(fs[MEMINFO_PATH], overflow_checks), "header")

PrintHeader ==
    /\ pc = "header"
    /\ stdout' = Append(stdout, pad_left(user_host(info), total_width))
    /\ pc' = "loop"
    /\ i' = 0
    /\ UNCHANGED <<env, fs, overflow_checks, info, stderr, exit_code>>

PrintLabelledRow ==
    /\ pc = "loop"
    /\ i < Len(get_logo)
    /\ i >= 1 /\ i <= 7
    /\ stdout' = Append(stdout, labelled_row(get_logo[i + 1],
                                             labels(info)[i][1], labels(info)[i][2]))
    /\ i' = i + 1
    /\ UNCHANGED <<env, fs, overflow_checks, pc, info, stderr, exit_code>>

PrintLogoRow ==
    /\ pc = "loop"
    /\ i < Len(get_logo)
    /\ ~(i >= 1 /\ i <= 7)
    /\ stdout' = Append(stdout, logo_row(get_logo[i + 1]))
    /\ i' = i + 1
    /\ UNCHANGED <<env, fs, overflow_checks, pc, info, stderr, exit_code>>

Exit ==
    /\ pc = "loop"
    /\ i = Len(get_logo)
    /\ pc' = "exited"
    /\ exit_code' = 0
    /\ UNCHANGED <<env, fs, overflow_checks, info, i, stdout, stderr>>

Next ==
    \/ GetUser
    \/ GetHostname
    \/ GetOsInfo
    \/ GetKernel
    \/ GetUptime
    \/ GetShell
    \/ GetCpu
    \/ GetCpuCores
    \/ GetCpuSpeed
    \/ GetMemory
    \/ PrintHeader
    \/ PrintLabelledRow
    \/ PrintLogoRow
    \/ Exit

----------------------------------------------------------------------------
(* Source contents the runs start from                                     *)

MaxProcessors == 2
MaxNameLen == 33
MaxHours == 2
MaxHalfGb == 3

RECURSIVE Repeat(_, _)
Repeat(s, n) == IF n <= 0 THEN "" ELSE s \o Repeat(s, n - 1)

UserValues == {Err, Ok(""), Ok("ant")}

ShellValues == {Err, Ok(""), Ok("/bin/zsh")}

HostnameFiles == {Err, Ok(""), Ok(" \n"), Ok("antbox\n")}

OsReleaseFiles ==
    { Err, Ok(""), Ok(" \n\n"),
      Ok("NAME=Arch\nID=arch\n"),
      Ok("PRETTY_NAME=\"\"\n"),
      Ok("NAME=\"Arch Linux\"\nPRETTY_NAME=\"Arch Linux\"\nID=arch\n") }

KernelFiles == {Err, Ok(""), Ok("\n"), Ok("6.18.44-arch1-1\n")}

\* seconds since boot, whole hours up to MaxHours plus some minutes and
\* seconds, written in three ways; then the other contents
UptimeFiles ==
    {Ok(FmtNat(h * 3600 + m * 60 + s) \o tail) :
        h \in 0..MaxHours, m \in {0, 1, 59}, s \in {0, 5, 59},
        tail \in {"", ".0 1200.0\n", ".99 77.3\n"}} \cup
    { Err, Ok(""), Ok(" \n"), Ok("up 3 days\n"), Ok("1.2.3 4\n"), Ok("12h 5\n"),
      Ok(". 1\n"), Ok("1e 1\n"), Ok("0x10 1\n"),
      Ok("-5.0 1200.0\n"), Ok("-3665 1\n"), Ok("-0.0 1\n"),
      Ok("nan 1\n"), Ok("NaN\n"), Ok("inf 1\n"), Ok("-inf 1\n"), Ok("infinity\n"),
      Ok("  3665.0\t1200.0\n"), Ok("+7205 1\n"), Ok("1e3 1\n"), Ok("36e2\n"),
      Ok("15461882261999.5 1\n"), Ok("15461882265600 1\n"), Ok("1e20 1\n") }

BaseName == "Intel(R) Core(TM) i7-10750H CPU @ 2.60GHz"

ModelNames ==
    {SubSeq(BaseName, 1, n) : n \in 0..MaxNameLen}
        \cup {SubSeq(BaseName, 1, a) \o Repeat("é", k) : a \in {25, 26, 29}, k \in 1..3}

ModelNameLines ==
    {"model name\t: " \o name \o "\n" : name \in ModelNames}
        \cup { "", "model name\nmodel name\t: Cortex-A72\n",
               "model name\t: AMD: Ryzen 7\n", " model name\t: indented\n",
               "model name:" \o SubSeq(BaseName, 1, 31) \o "\n" }

MhzLines ==
    { "", "cpu MHz\t\t: 2400.000\n", "cpu MHz\ncpu MHz\t\t: 799.9\n",
      "cpu MHz\t\t: fast\n", "cpu MHz: nan\n" }

RECURSIVE CpuBlocks(_, _, _)
\* n processor blocks, numbered from 0, each with the same name and speed lines
CpuBlocks(n, nameLine, mhzLine) ==
    IF n = 0 THEN ""
    ELSE CpuBlocks(n - 1, nameLine, mhzLine)
           \o "processor\t: " \o FmtNat(n - 1) \o "\nvendor_id\t: GenuineIntel\n"
           \o nameLine \o mhzLine \o "\n"

CpuText(n, nameLine, mhzLine) ==
    IF n = 0 THEN "Hardware\t: BCM2835\n" \o nameLine \o mhzLine
    ELSE CpuBlocks(n, nameLine, mhzLine)

CpuInfoFiles ==
    {Err, Ok("")}
        \cup {Ok(CpuText(n, nl, ml)) : n \in 0..MaxProcessors,
                                       nl \in ModelNameLines, ml \in MhzLines}

MemValues ==
    {FmtNat(g * 524288) : g \in 0..MaxHalfGb}
        \cup {"1", "262144", "786432", "8000000", "16000000"}

MemLine(key, val) == key \o ":" \o Spaces(8) \o val \o " kB\n"

MemInfoFiles ==
    {Err, Ok(""), Ok("MemTotal 16000000 kB\nMemAvailable 8000000 kB\n")}
        \cup {Ok(MemLine("MemTotal", t) \o MemLine("MemFree", "5") \o MemLine("MemAvailable", a)) :
                t \in MemValues, a \in MemValues}
        \cup {Ok(MemLine("MemTotal", t)) : t \in MemValues}
        \cup {Ok(MemLine("MemAvailable", a)) : a \in MemValues}
        \cup {Ok(MemLine("MemTotal", "1") \o MemLine("MemAvailable", a)
                 \o MemLine(" MemTotal ", t) \o MemLine("MemAvailable", "0")) :
                t \in MemValues, a \in MemValues}
        \cup {Ok(MemLine("MemTotal", t) \o MemLine("MemAvailable", "8000000")) :
                t \in {"lots", "", "-1", "+16000000", "18446744073709551616",
                       "18446744073709551615"}}

\* well-formed sources
GoodUser == Ok("ant")
GoodShell == Ok("/bin/zsh")
GoodHostname == Ok("antbox\n")
GoodOsRelease == Ok("NAME=\"Arch Linux\"\nPRETTY_NAME=\"Arch Linux\"\nID=arch\n")
GoodKernel == Ok("6.18.44-arch1-1\n")
GoodUptime == Ok("3665.0 1200.0\n")
GoodCpuInfo == Ok(CpuText(2, "model name\t: Intel(R) Core(TM) i7\n", "cpu MHz\t\t: 2400.000\n"))
GoodMemInfo == Ok(MemLine("MemTotal", "16000000") \o MemLine("MemAvailable", "8000000"))

\* the state when main starts, with the sources drawn from the given sets
InitFrom(users, shells, hostnames, osReleases, kernels, uptimes, cpuInfos, memInfos) ==
    /\ env \in [USER : users, SHELL : shells]
    /\ \E h \in hostnames, o \in osReleases, k \in kernels,
          u \in uptimes, c \in cpuInfos, m \in memInfos :
          fs = [p \in {HOSTNAME_PATH, OS_RELEASE_PATH, OSRELEASE_PATH,
                       UPTIME_PATH, CPUINFO_PATH, MEMINFO_PATH} |->
                  CASE p = HOSTNAME_PATH -> h
                    [] p = OS_RELEASE_PATH -> o
                    [] p = OSRELEASE_PATH -> k
                    [] p = UPTIME_PATH -> u
                    [] p = CPUINFO_PATH -> c
                    [] p = MEMINFO_PATH -> m]
    /\ overflow_checks \in BOOLEAN
    /\ pc = "get_user"
    /\ info = [f \in {} |-> ""]
    /\ i = 0
    /\ stdout = <<>>
    /\ stderr = <<>>
    /\ exit_code = RUNNING

\* a model name of 29 characters and 32 bytes whose byte 27 is inside a character
WideCpuInfo == Ok(CpuText(1, "model name\t: " \o SubSeq(BaseName, 1, 26) \o "ééé\n", ""))

\* more memory available than there is in total
OverMemInfo == Ok(MemLine("MemTotal", "1") \o MemLine("MemAvailable", "2"))

\* every combination of an unreadable, a degenerate and a well-formed source
InitCombined ==
    InitFrom({Err, Ok(""), GoodUser}, {Err, Ok(""), GoodShell},
             {Err, Ok(" \n"), GoodHostname},
             {Err, Ok("PRETTY_NAME=\"\"\n"), GoodOsRelease},
             {Err, GoodKernel}, {Ok(" \n"), GoodUptime},
             {Err, WideCpuInfo, GoodCpuInfo}, {Err, OverMemInfo, GoodMemInfo})

\* the environment and the hostname in each of their states
InitIdentity ==
    InitFrom(UserValues \cup {Ok(Repeat("u", 60))}, ShellValues, HostnameFiles,
             {GoodOsRelease}, {GoodKernel}, {GoodUptime}, {GoodCpuInfo}, {GoodMemInfo})

\* the system files in each of their states
InitSystem ==
    InitFrom({GoodUser}, {GoodShell}, {GoodHostname}, OsReleaseFiles, KernelFiles,
             {Err, Ok(""), Ok(" \n"), Ok("up 3 days\n"), GoodUptime},
             {GoodCpuInfo}, {GoodMemInfo})

\* the hardware files in each of their states
InitHardware ==
    InitFrom({GoodUser}, {GoodShell}, {GoodHostname}, {GoodOsRelease}, {GoodKernel},
             {GoodUptime},
             {Err, Ok(""), Ok("\n \n"), Ok("model name\ncpu MHz\n"),
              Ok("model name\t:\ncpu MHz\t:\n"), WideCpuInfo, GoodCpuInfo},
             {Err, Ok(""), Ok(" \n"), Ok("MemTotal 1 kB\n"), OverMemInfo, GoodMemInfo})

Init == InitCombined \/ InitIdentity \/ InitSystem \/ InitHardware

Spec == Init /\ [][Next]_vars

\* the uptime source varies
InitUptime ==
    InitFrom({GoodUser}, {GoodShell}, {GoodHostname}, {GoodOsRelease}, {GoodKernel},
             UptimeFiles, {GoodCpuInfo}, {GoodMemInfo})

SpecUptime == InitUptime /\ [][Next]_vars

\* the CPU info source varies
InitCpu ==
    InitFrom({GoodUser}, {GoodShell}, {GoodHostname}, {GoodOsRelease}, {GoodKernel},
             {GoodUptime}, CpuInfoFiles, {GoodMemInfo})

SpecCpu == InitCpu /\ [][Next]_vars

\* the memory source varies
InitMemory ==
    InitFrom({GoodUser}, {GoodShell}, {GoodHostname}, {GoodOsRelease}, {GoodKernel},
             {GoodUptime}, {GoodCpuInfo}, MemInfoFiles)

SpecMemory == InitMemory /\ [][Next]_vars

----------------------------------------------------------------------------
(* Properties                                                              *)

\* C1: once SystemInfo::new has returned, every field of the snapshot is a
\* non-empty string, whatever the environment and the files hold.
C1_EveryFieldNonEmpty ==
    pc \in {"header", "loop", "exited"} =>
        \A f \in {"user", "hostname", "os", "kernel", "uptime", "shell",
                  "cpu", "cpu_cores", "cpu_speed", "memory"} :
            f \in DOMAIN info /\ info[f] # ""

\* C2: a run never aborts: no collector panics, and a run that has ended has
\* printed the header and the 12 logo rows and exits with code 0.
C2_NeverAborts ==
    /\ pc # "panicked"
    /\ stderr = <<>>
    /\ exit_code \in {RUNNING, 0}
    /\ pc = "exited" => Len(stdout) = 13 /\ exit_code = 0

\* C3: get_uptime is "unknown" for every missing or malformed uptime source:
\* an unreadable file, a file without a token, or a first token that is not
\* a number, is a negative number or is not finite.
C3_MalformedUptimeUnknown ==
    "uptime" \in DOMAIN info =>
        LET file == fs[UPTIME_PATH]
            tok == split_whitespace_next(file.v)
            num == parse_f64(tok.v)
            negative == num.v.neg /\ ~(num.v.int = "0" /\ AllZero(num.v.frac))
            malformed == \/ ~file.ok
                         \/ ~tok.some
                         \/ ~num.ok
                         \/ num.v.kind # "fin"
                         \/ negative
        IN  malformed => info.uptime = "unknown"

\* C4: for a first token that is a non-negative number of seconds s,
\* get_uptime is "{h}h {m}m" with h = floor(s / 3600), however large, and
\* m = floor((s mod 3600) / 60), at most 59; "3665.0 1200.0" gives "1h 1m".
C4_UptimeHoursMinutes ==
    "uptime" \in DOMAIN info =>
        LET file == fs[UPTIME_PATH]
            tok == split_whitespace_next(file.v)
            num == parse_f64(tok.v)
            h == BigDiv(num.v.int, 3600)
            m == BigMod(num.v.int, 3600) \div 60
        IN  /\ file.ok /\ tok.some /\ num.ok /\ num.v.kind = "fin" /\ ~num.v.neg
                => m <= 59 /\ info.uptime = h \o "h " \o ToString(m) \o "m"
            /\ file = Ok("3665.0 1200.0\n") => info.uptime = "1h 1m"

\* C5: get_memory returns, and returns "unknown" exactly when the source is
\* unreadable or has no MemTotal or no MemAvailable entry; otherwise it is
\* "{used}GB / {total}GB" with used = MemTotal - MemAvailable, where used
\* does not exceed total; the last occurrence of a key counts.
C5_MemoryUsedOfTotal ==
    LET file == fs[MEMINFO_PATH]
        m == mem_info_of(lines(file.v), [k \in {} |-> "0"])
        present == file.ok /\ {"MemTotal", "MemAvailable"} \subseteq DOMAIN m
    IN  /\ ~(pc = "panicked" /\ "cpu_speed" \in DOMAIN info)
        /\ "memory" \in DOMAIN info =>
            /\ info.memory = "unknown" <=> ~present
            /\ present =>
                /\ BigLe(m["MemAvailable"], m["MemTotal"])
                /\ info.memory = fmt_gb(BigSub(m["MemTotal"], m["MemAvailable"]))
                                    \o "GB / " \o fmt_gb(m["MemTotal"]) \o "GB"
            /\ file = GoodMemInfo => info.memory = "7.6GB / 15.3GB"

\* C6: for a readable CPU info source, get_cpu returns the trimmed text after
\* the first colon of the first "model name" line that has a colon: unchanged
\* when it has at most 30 characters, otherwise its first 27 characters and
\* "...", so never more than 30 characters.
C6_CpuNameTruncated ==
    LET file == fs[CPUINFO_PATH]
        ls == lines(file.v)
        hits == {k \in 1..Len(ls) :
                    starts_with(ls[k], "model name") /\ find(ls[k], ":") # 0}
        first == CHOOSE k \in hits : \A j \in hits : k <= j
        name == trim(DropFirst(ls[first], find(ls[first], ":")))
    IN  /\ ~(pc = "panicked" /\ "shell" \in DOMAIN info /\ "cpu" \notin DOMAIN info)
        /\ "cpu" \in DOMAIN info /\ file.ok /\ hits # {} =>
            /\ Len(info.cpu) <= 30
            /\ Len(name) <= 30 => info.cpu = name
            /\ Len(name) > 30 => info.cpu = SubSeq(name, 1, 27) \o "..."

\* C7: with the CPU info source unreadable, cpu, cpu_cores and cpu_speed are
\* each "unknown" and every other field has the value its own source gives.
\* With the source readable, cpu_cores is the decimal count of the lines that
\* start with "processor", and a missing "model name" or "cpu MHz" line makes
\* only cpu or only cpu_speed "unknown".
C7_CpuFieldsIndependent ==
    LET file == fs[CPUINFO_PATH]
        ls == lines(file.v)
        Begins(l, prefix) == Len(l) >= Len(prefix) /\ SubSeq(l, 1, Len(prefix)) = prefix
        Has(prefix) == \E k \in 1..Len(ls) : Begins(ls[k], prefix)
        count == Cardinality({k \in 1..Len(ls) : Begins(ls[k], "processor")})
        others == [user |-> "ant", hostname |-> "antbox", os |-> "Arch Linux",
                   kernel |-> "6.18.44-arch1-1", uptime |-> "1h 1m",
                   shell |-> "/bin/zsh", memory |-> "7.6GB / 15.3GB"]
    IN  /\ \A f \in DOMAIN info \cap DOMAIN others : info[f] = others[f]
        /\ ~file.ok =>
            \A f \in DOMAIN info \cap {"cpu", "cpu_cores", "cpu_speed"} :
                info[f] = "unknown"
        /\ file.ok /\ "cpu_cores" \in DOMAIN info =>
            info.cpu_cores = ToString(count) /\ info.cpu_cores # "unknown"
        /\ file.ok /\ "cpu" \in DOMAIN info /\ ~Has("model name") =>
            info.cpu = "unknown"
        /\ file.ok /\ "cpu_speed" \in DOMAIN info =>
            /\ ~Has("cpu MHz") => info.cpu_speed = "unknown"
            /\ Has("cpu MHz\t\t:") => info.cpu_speed # "unknown"
            /\ Has("model name\t: Intel") => info.cpu # "unknown"

\* C7 witness: a finished run with the CPU info source unreadable, the three
\* CPU fields "unknown" and the memory field intact
C7_Witness ==
    /\ pc = "exited"
    /\ ~fs[CPUINFO_PATH].ok
    /\ info.cpu = "unknown" /\ info.cpu_cores = "unknown" /\ info.cpu_speed = "unknown"
    /\ info.memory = "7.6GB / 15.3GB"

\* C8: the rows printed after the header are the 12 logo lines, once each and
\* in order, each between the color and the reset code.  Rows 1 to 7 carry
\* OS, Host, Kernel, Uptime, Shell, CPU, Memory as "{label}: {value}" with
\* the color on the label and the colon only; rows 0 and 8 to 11 carry
\* nothing else.
C8_LogoRowsAndLabels ==
    LET names == <<"OS", "Host", "Kernel", "Uptime", "Shell", "CPU", "Memory">>
        values == <<info.os, info.hostname, info.kernel, info.uptime, info.shell,
                    info.cpu \o " (" \o info.cpu_cores \o ") @ " \o info.cpu_speed,
                    info.memory>>
        left(r) == ESC \o "[36m" \o get_logo[r + 1] \o ESC \o "[0m"
        right(r) == ESC \o "[36m" \o names[r] \o ":" \o ESC \o "[0m " \o values[r]
    IN  pc \in {"loop", "exited"} =>
            /\ Len(stdout) = i + 1
            /\ pc = "exited" => Len(stdout) = 13
            /\ \A r \in 0..(i - 1) :
                 LET line == stdout[r + 2]
                 IN  /\ SubSeq(line, 1, Len(left(r))) = left(r)
                     /\ IF r \in 1..7
                        THEN /\ Len(line) > Len(left(r)) + Len(right(r))
                             /\ DropFirst(line, Len(line) - Len(right(r))) = right(r)
                             /\ \A k \in (Len(left(r)) + 1)..(Len(line) - Len(right(r))) :
                                   Char(line, k) = " "
                        ELSE line = left(r)

\* C8 witness: a finished run whose CPU row shows the three CPU fields
C8_Witness ==
    /\ pc = "exited"
    /\ Len(stdout) = 13
    /\ info.cpu = "Intel(R) Core(TM) i7" /\ info.cpu_cores = "2"
    /\ info.os = "Arch Linux"

\* C9 as stated: the header is the colored "user@host" followed by spaces up
\* to a width of 60.
C9_HeaderRightPadded ==
    LET header == ESC \o "[36m" \o info.user \o "@" \o info.hostname \o ESC \o "[0m"
    IN  pc \in {"loop", "exited"} =>
            stdout[1] = header \o Spaces(60 - Len(header))

\* C9 amended: the first line printed is the colored "user@host" preceded by
\* spaces up to a width of 60 characters, the escape codes counted, and left
\* as it is when it is longer; no logo row comes before it and its hostname
\* is the one on the Host row.
C9_HeaderRightAligned ==
    LET header == ESC \o "[36m" \o info.user \o "@" \o info.hostname \o ESC \o "[0m"
        host == ESC \o "[36mHost:" \o ESC \o "[0m " \o info.hostname
    IN  /\ pc \in {"loop", "exited"} =>
            /\ stdout[1] = Spaces(60 - Len(header)) \o header
            /\ Len(stdout[1]) >= 60
            /\ Len(header) >= 60 => stdout[1] = header
            /\ Len(stdout) >= 4 =>
                 DropFirst(stdout[4], Len(stdout[4]) - Len(host)) = host
        /\ pc \notin {"loop", "exited"} => stdout = <<>>

\* C9 witness: a finished run whose header is shorter than 60 characters and
\* starts with padding
C9_Witness ==
    /\ pc = "exited"
    /\ info.user = "ant" /\ info.hostname = "antbox"
    /\ Len(stdout[1]) = 60
    /\ Char(stdout[1], 1) = " "

\* C10: on every labelled row the logo text is followed by 30 minus its
\* length spaces, at least one; every line of the logo is shorter than 30
\* characters, so the info text starts at visible column 30 on all seven
\* rows whatever the values are.  For a logo text of any length n the
\* padding is 30 - n spaces when n is below 30 and one space otherwise.
C10_InfoTextAtColumn30 ==
    /\ \A n \in 0..(2 * text_start_position) :
        /\ padding_needed(n) >= 1
        /\ n < 30 => n + padding_needed(n) = 30
        /\ n >= 30 => padding_needed(n) = 1
    /\ \A r \in 1..Len(get_logo) : Len(get_logo[r]) < 30
    /\ pc \in {"loop", "exited"} =>
        \A r \in 1..7 :
            r < i =>
                LET logo == get_logo[r + 1]
                    after == DropFirst(stdout[r + 2], 5 + Len(logo) + 4)
                    gap == FindFrom(after, {ESC}, 1) - 1
                IN  /\ gap = 30 - Len(logo)
                    /\ gap >= 1
                    /\ SubSeq(after, 1, gap) = Spaces(gap)
                    /\ Len(logo) + gap = 30

\* C10 witness: a finished run; row 1 has a logo line of 17 characters and a
\* gap of 13 spaces
C10_Witness ==
    /\ pc = "exited"
    /\ Len(get_logo[2]) = 17
    /\ SubSeq(stdout[3], 5 + 17 + 4 + 1, 5 + 17 + 4 + 14) = Spaces(13) \o ESC

====
